---- MODULE Spec2Model ----
(***************************************************************************)
(* Model of the MCP3428 ADC driver (esp-hal-drivers/src/mcp3428.rs).       *)
(*                                                                         *)
(* The driver instance (ThermostatConfig) is the state: address, mode,     *)
(* resolution, gain and channel.  The three asynchronous operations        *)
(* one_shot_measurement, write_config and get_measurement are modelled     *)
(* step by step, one action per suspension point (.await) of the code.     *)
(* The I2C bus and the timer are the environment: every bus transaction    *)
(* may fail, every read returns bytes chosen by the device.  Every bus     *)
(* transaction and every elapsed delay of the running call is recorded in  *)
(* `log`.                                                                  *)
(***************************************************************************)
EXTENDS Integers, Sequences, FiniteSets, TLC

VARIABLES
    address,      \* ThermostatConfig.address
    mode,         \* ThermostatConfig.mode
    resolution,   \* ThermostatConfig.resolution
    gain,         \* ThermostatConfig.gain
    channel,      \* ThermostatConfig.channel
    op,           \* the most recent operation invoked on the instance
    pc,           \* position of the running call
    log,          \* bus transactions and delays of the running call, in order
    calcArgs,     \* arguments handed to calculate_voltage by the running call
    result,       \* value returned by the call
    device,       \* number of not-ready reads the device will still answer
    configWritten, \* history: a write_config call has returned Ok(())
    lastReturned,  \* history: the raw sample of the last voltage returned
    callers,      \* two logical callers of one physical device: their calls
    dev,          \* the physical device shared by the two callers
    overlap,      \* history: a call of one caller began during a call of the other
    twin          \* two instances converting the same raw sample, side by side

vars == <<address, mode, resolution, gain, channel, op, pc, log, calcArgs, result, device,
          configWritten, lastReturned, callers, dev, overlap, twin>>

config == <<address, mode, resolution, gain, channel>>

\* the state of the single driver instance and of its running call
single == <<config, op, pc, log, calcArgs, result, device>>

\* history of the calls made on the single instance
hist == <<configWritten, lastReturned>>

\* the two-caller scenario and the side-by-side comparison of two instances
shared == <<callers, dev, overlap, twin>>

-----------------------------------------------------------------------------
(* Bounds of the model *)

\* largest number of not-ready answers of a device that becomes ready
MaxPolls == 2

\* reads after which a call against a device that never becomes ready is
\* no longer followed
MaxReads == MaxPolls + 1

\* a device that answers not-ready to every read that is followed
Stuck == MaxReads

-----------------------------------------------------------------------------
(* Fixed-width integers and bit operations *)

Bit(n, i) == (n \div (2 ^ i)) % 2

\* a | b on u8
BitOr(a, b) ==
    LET f[i \in 0..8] ==
            IF i = 8 THEN 0
            ELSE (IF Bit(a, i) = 1 \/ Bit(b, i) = 1 THEN 2 ^ i ELSE 0) + f[i + 1]
    IN f[0]

\* a & b on u8
BitAnd(a, b) ==
    LET f[i \in 0..8] ==
            IF i = 8 THEN 0
            ELSE (IF Bit(a, i) = 1 /\ Bit(b, i) = 1 THEN 2 ^ i ELSE 0) + f[i + 1]
    IN f[0]

\* two's-complement wrap to a signed integer of w bits (w < 32)
WrapSigned(x, w) ==
    LET m == x % (2 ^ w)
    IN IF m >= 2 ^ (w - 1) THEN m - 2 ^ w ELSE m

\* variant: division rounding toward minus infinity
TruncDiv_Floor(a, b) == a \div b

\* Rust integer division: truncates toward zero
TruncDiv(a, b) ==
    IF (a >= 0) = (b >= 0)
    THEN (IF a >= 0 THEN a ELSE -a) \div (IF b >= 0 THEN b ELSE -b)
    ELSE -((IF a >= 0 THEN a ELSE -a) \div (IF b >= 0 THEN b ELSE -b))

\* i16::from_be_bytes([hi, lo])
i16_from_be_bytes(hi, lo) == WrapSigned(hi * 256 + lo, 16)

I16 == (-32768)..32767

-----------------------------------------------------------------------------
(* Enumerations and their bit patterns *)

Modes == {"OneShot", "Continuous"}
Resolutions == {"Bits16Sps15", "Bits14Sps60", "Bits12Sps240"}
Gains == {"Gain1", "Gain2", "Gain4", "Gain8"}
Channels == {"Channel1", "Channel2", "Channel3", "Channel4"}

Mode_bits(m) ==
    CASE m = "OneShot" -> 0
      [] m = "Continuous" -> 16

\* variant: the patterns of 16 and 14 bits exchanged
Resolution_bits_Swapped(r) ==
    CASE r = "Bits16Sps15" -> 4
      [] r = "Bits14Sps60" -> 8
      [] r = "Bits12Sps240" -> 0

Resolution_bits(r) ==
    CASE r = "Bits16Sps15" -> 8
      [] r = "Bits14Sps60" -> 4
      [] r = "Bits12Sps240" -> 0

res_bits(r) ==
    CASE r = "Bits16Sps15" -> 16
      [] r = "Bits14Sps60" -> 14
      [] r = "Bits12Sps240" -> 12

\* variant: the 14-bit maximum code one too large
Resolution_max_OffByOne(r) ==
    CASE r = "Bits16Sps15" -> 32767
      [] r = "Bits14Sps60" -> 8192
      [] r = "Bits12Sps240" -> 2047

Resolution_max(r) ==
    CASE r = "Bits16Sps15" -> 32767
      [] r = "Bits14Sps60" -> 8191
      [] r = "Bits12Sps240" -> 2047

Resolution_min(r) ==
    CASE r = "Bits16Sps15" -> -32768
      [] r = "Bits14Sps60" -> -8192
      [] r = "Bits12Sps240" -> -2048

\* samples per second of each resolution
SampleRate(r) ==
    CASE r = "Bits16Sps15" -> 15
      [] r = "Bits14Sps60" -> 60
      [] r = "Bits12Sps240" -> 240

Resolution_default == "Bits12Sps240"

Gain_bits(g) ==
    CASE g = "Gain1" -> 0
      [] g = "Gain2" -> 1
      [] g = "Gain4" -> 2
      [] g = "Gain8" -> 3

Gain_default == "Gain1"

Channel_bits(c) ==
    CASE c = "Channel1" -> 0
      [] c = "Channel2" -> 32
      [] c = "Channel3" -> 64
      [] c = "Channel4" -> 96

Channel_default == "Channel1"

-----------------------------------------------------------------------------
(* ConfigRegister *)

NOT_READY == 128
MODE == 16
SAMPLE_RATE_H == 8
SAMPLE_RATE_L == 4
GAIN_H == 2
GAIN_L == 1
ALL ==
    BitOr(NOT_READY, BitOr(MODE, BitOr(SAMPLE_RATE_H,
        BitOr(SAMPLE_RATE_L, BitOr(GAIN_H, GAIN_L)))))

ConfigRegister_new(value) == [value |-> value]

\* variant: the not-ready flag is ignored
is_ready_Always(reg) == TRUE

is_ready(reg) == BitAnd(reg.value, NOT_READY) # NOT_READY

-----------------------------------------------------------------------------
(* Pure methods of ThermostatConfig *)

get_sleep_ms(r) ==
    CASE r = "Bits12Sps240" -> 4
      [] r = "Bits14Sps60" -> 15
      [] r = "Bits16Sps15" -> 57

\* variant: the gain pattern is left out of the control byte
config_flag_NoGain(c, r, g) == BitOr(Channel_bits(c), Resolution_bits(r))

config_flag(c, r, g) == BitOr(BitOr(Channel_bits(c), Resolution_bits(r)), Gain_bits(g))

\* variant: the start marker is left out in one-shot mode
command_NoStart(m, c, r, g) == BitOr(Mode_bits(m), config_flag(c, r, g))

\* variant: the start marker is set in both modes
command_AlwaysStart(m, c, r, g) == BitOr(BitOr(NOT_READY, Mode_bits(m)), config_flag(c, r, g))

command(m, c, r, g) ==
    CASE m = "OneShot" -> BitOr(BitOr(NOT_READY, Mode_bits(m)), config_flag(c, r, g))
      [] m = "Continuous" -> BitOr(Mode_bits(m), config_flag(c, r, g))

\* variant: a reference whose double does not fit a signed 16-bit integer
REF_MILLIVOLTS_Large == 2048 * 8

REF_MILLIVOLTS == 2048

\* values of Result<_, Error>
None == [tag |-> "None", val |-> 0]
Ok(v) == [tag |-> "Ok", val |-> v]
OkUnit == [tag |-> "OkUnit", val |-> 0]
Err(e) == [tag |-> e, val |-> 0]

\* variant: saturation tested with >= and <= instead of ==
calculate_voltage_RangeCheck(r, measurement) ==
    IF measurement >= Resolution_max(r) THEN Err("VoltageTooHigh")
    ELSE IF measurement <= Resolution_min(r) THEN Err("VoltageTooLow")
    ELSE Ok(TruncDiv(measurement * WrapSigned(REF_MILLIVOLTS * 2, 16), 2 ^ res_bits(r)))

\* measurement as i32 * (REF_MILLIVOLTS * 2) as i32 / (1 << res_bits).
\* REF_MILLIVOLTS * 2 is an i16 product; the i32 operations are those of the
\* model checker's own 32-bit signed integers, which stop on overflow.
calculate_voltage(r, measurement) ==
    IF measurement = Resolution_max(r) THEN Err("VoltageTooHigh")
    ELSE IF measurement = Resolution_min(r) THEN Err("VoltageTooLow")
    ELSE Ok(TruncDiv(measurement * WrapSigned(REF_MILLIVOLTS * 2, 16), 2 ^ res_bits(r)))

-----------------------------------------------------------------------------
(* Environment: what the bus and the device may answer *)

\* 7-bit bus addresses the instance may be created with
Addresses == {104, 110}

\* [sample_high, sample_low] of a read: the saturation codes of the three
\* resolutions and two mid-range codes (1024 and -1024)
SampleBytes ==
    { <<7, 255>>, <<248, 0>>, <<31, 255>>, <<224, 0>>,
      <<127, 255>>, <<128, 0>>, <<4, 0>>, <<252, 0>> }

\* bits 6-0 of the status byte, echoed configuration
StatusEcho == {0, 127}

\* the three bytes of a read answered by a device whose conversion is complete
ReadyAnswers == { <<s[1], s[2], e>> : s \in SampleBytes, e \in StatusEcho }

\* the three bytes of a read answered while the conversion is in progress:
\* bit 7 of the status is set; the sample is a saturation code or mid-range
NotReadyAnswers == { <<7, 255, NOT_READY>>, <<4, 0, NOT_READY + 127>> }

\* what a device with d not-ready answers left may answer to a read
Answers(d) == IF d = 0 THEN ReadyAnswers ELSE NotReadyAnswers

\* not-ready answers before the device is ready
DeviceScripts == (0..MaxPolls) \cup {Stuck}

Event(kind, ok, data, ms) == [kind |-> kind, ok |-> ok, addr |-> address, data |-> data, ms |-> ms]

Reads(l) == {i \in 1..Len(l) : l[i].kind = "read"}

-----------------------------------------------------------------------------
(* Construction and configuration *)

\* the logical callers of the two-caller scenario
Callers == {"A", "B"}

\* a caller that has made no call yet: its own instance, created in OneShot
\* mode on channel ch, and what its current call wrote and was returned
NewCaller(ch) ==
    [pc |-> "idle", channel |-> ch, wrote |-> <<>>, result |-> None, under |-> <<>>]

\* the device after power-on: channel 1, continuous, 12 bits, gain 1, no
\* conversion requested by a caller
PowerOnDevice == [byte |-> Mode_bits("Continuous"), left |-> 0]

\* no side-by-side comparison is set up
NoTwin == [call |-> "new", sample |-> <<>>, inst |-> <<>>]

\* nothing has happened yet besides the construction of the instances
NoHistory ==
    /\ configWritten = FALSE
    /\ lastReturned = <<>>
    /\ callers = [c \in Callers |-> NewCaller(Channel_default)]
    /\ dev = PowerOnDevice
    /\ overlap = FALSE
    /\ twin = NoTwin

\* ThermostatConfig::new(address, i2c, mode)
Init ==
    /\ address \in Addresses
    /\ mode \in Modes
    /\ resolution = Resolution_default
    /\ gain = Gain_default
    /\ channel = Channel_default
    /\ op = "new"
    /\ pc = "idle"
    /\ log = <<>>
    /\ calcArgs = <<>>
    /\ result = None
    /\ device = 0
    /\ NoHistory

with_resolution(r) ==
    /\ pc = "idle"
    /\ resolution' = r
    /\ op' = "with_resolution"
    /\ UNCHANGED <<address, mode, gain, channel, pc, log, calcArgs, result, device>>

with_gain(g) ==
    /\ pc = "idle"
    /\ gain' = g
    /\ op' = "with_gain"
    /\ UNCHANGED <<address, mode, resolution, channel, pc, log, calcArgs, result, device>>

with_channel(c) ==
    /\ pc = "idle"
    /\ channel' = c
    /\ op' = "with_channel"
    /\ UNCHANGED <<address, mode, resolution, gain, pc, log, calcArgs, result, device>>

set_channel(c) ==
    /\ pc = "idle"
    /\ channel' = c
    /\ op' = "set_channel"
    /\ UNCHANGED <<address, mode, resolution, gain, pc, log, calcArgs, result, device>>

\* variant: changing the mode puts the channel back to its default
set_mode_ResetsChannel(m) ==
    /\ pc = "idle"
    /\ mode' = m
    /\ channel' = Channel_default
    /\ op' = "set_mode"
    /\ UNCHANGED <<address, resolution, gain, pc, log, calcArgs, result, device>>

set_mode(m) ==
    /\ pc = "idle"
    /\ mode' = m
    /\ op' = "set_mode"
    /\ UNCHANGED <<address, resolution, gain, channel, pc, log, calcArgs, result, device>>

-----------------------------------------------------------------------------
(* The asynchronous operations *)

\* the caller invokes `call`; the device is in some state of its conversion
Invoke(call, firstPc, script) ==
    /\ pc = "idle"
    /\ op' = call
    /\ pc' = firstPc
    /\ log' = <<>>
    /\ calcArgs' = <<>>
    /\ result' = None
    /\ device' = script
    /\ UNCHANGED config

one_shot_measurement(script) == Invoke("one_shot_measurement", "write", script)

write_config(script) == Invoke("write_config", "write", script)

\* variant: a continuous-mode read before any write_config is refused
get_measurement_RequiresInit(script) ==
    IF mode = "Continuous" /\ ~configWritten
    THEN /\ pc = "idle"
         /\ op' = "get_measurement"
         /\ pc' = "done"
         /\ result' = Err("NotInitialized")
         /\ UNCHANGED <<config, log, calcArgs, device>>
    ELSE Invoke("get_measurement", "read", script)

get_measurement(script) == Invoke("get_measurement", "read", script)

\* variant: the result of the write is not examined
WriteCommand_IgnoreError(ok) ==
    /\ pc = "write"
    /\ log' = Append(log, Event("write", ok, <<command(mode, channel, resolution, gain)>>, 0))
    /\ pc' = "settle"
    /\ UNCHANGED <<config, op, calcArgs, result, device>>

\* self.i2c.write(self.address, &[self.command()]).await
WriteCommand(ok) ==
    /\ pc = "write"
    /\ log' = Append(log, Event("write", ok, <<command(mode, channel, resolution, gain)>>, 0))
    /\ IF ok
       THEN /\ pc' = "settle"
            /\ UNCHANGED result
       ELSE /\ pc' = "done"
            /\ result' = Err("I2c")
    /\ UNCHANGED <<config, op, calcArgs, device>>

\* variant: one_shot_measurement without the 2 ms guard margin
SettleMs_NoGuard(call, r) == get_sleep_ms(r)

\* duration of the delay that follows the write
SettleMs(call, r) ==
    IF call = "one_shot_measurement" THEN get_sleep_ms(r) + 2 ELSE get_sleep_ms(r)

\* Timer::after(Duration::from_millis(..)).await after the write
SettleDelay ==
    /\ pc = "settle"
    /\ log' = Append(log, Event("delay", TRUE, <<>>, SettleMs(op, resolution)))
    /\ pc' = "read"
    /\ UNCHANGED <<config, op, calcArgs, result, device>>

\* variant: the status is masked with 0x7F, which drops the not-ready flag
read_i2c_MaskLow(buf) ==
    [measurement |-> i16_from_be_bytes(buf[1], buf[2]),
     config_reg |-> ConfigRegister_new(BitAnd(buf[3], 127))]

\* read_i2c: decoding of a successful 3-byte read
read_i2c(buf) ==
    [measurement |-> i16_from_be_bytes(buf[1], buf[2]),
     config_reg |-> ConfigRegister_new(BitAnd(buf[3], ALL))]

\* variant: write_config converts the sample of the ready read like get_measurement
AfterRead_ConfigChecksVoltage(call, r, buf) ==
    LET rd == read_i2c(buf) IN
    IF is_ready(rd.config_reg)
    THEN [pc |-> "done",
          result |-> IF call = "write_config" /\ calculate_voltage(r, rd.measurement).tag = "Ok"
                     THEN OkUnit
                     ELSE calculate_voltage(r, rd.measurement),
          calc |-> <<rd.measurement>>]
    ELSE [pc |-> "poll", result |-> None, calc |-> <<>>]

\* variant: a ready read carrying a saturation code is polled again
AfterRead_RepollSaturation(call, r, buf) ==
    LET rd == read_i2c(buf) IN
    IF call = "write_config"
    THEN IF is_ready(ConfigRegister_new(BitAnd(ALL, buf[3])))
         THEN [pc |-> "done", result |-> OkUnit, calc |-> <<>>]
         ELSE [pc |-> "poll", result |-> None, calc |-> <<>>]
    ELSE IF is_ready(rd.config_reg)
            /\ calculate_voltage(r, rd.measurement).tag = "Ok"
         THEN [pc |-> "done", result |-> calculate_voltage(r, rd.measurement),
               calc |-> <<rd.measurement>>]
         ELSE [pc |-> "poll", result |-> None, calc |-> <<>>]

\* what the poll loop of `call` does with a successful read
AfterRead(call, r, buf) ==
    LET rd == read_i2c(buf) IN
    IF call = "write_config"
    THEN IF is_ready(ConfigRegister_new(BitAnd(ALL, buf[3])))
         THEN [pc |-> "done", result |-> OkUnit, calc |-> <<>>]
         ELSE [pc |-> "poll", result |-> None, calc |-> <<>>]
    ELSE IF is_ready(rd.config_reg)
         THEN [pc |-> "done", result |-> calculate_voltage(r, rd.measurement),
               calc |-> <<rd.measurement>>]
         ELSE [pc |-> "poll", result |-> None, calc |-> <<>>]

\* variant: the poll loop gives up with Error::NotReady at the second not-ready read
ReadPoll_GiveUp(ok, buf) ==
    /\ pc = "read"
    /\ Cardinality(Reads(log)) < MaxReads
    /\ IF ok
       THEN LET next == AfterRead(op, resolution, buf)
                giveUp == next.pc = "poll" /\ Cardinality(Reads(log)) >= 1
            IN /\ log' = Append(log, Event("read", TRUE, buf, 0))
               /\ pc' = IF giveUp THEN "done" ELSE next.pc
               /\ result' = IF giveUp THEN Err("NotReady") ELSE next.result
               /\ calcArgs' = calcArgs \o next.calc
               /\ device' = IF device = 0 \/ device = Stuck THEN device ELSE device - 1
       ELSE /\ log' = Append(log, Event("read", FALSE, <<0, 0, 0>>, 0))
            /\ pc' = "done"
            /\ result' = Err("I2c")
            /\ UNCHANGED <<calcArgs, device>>
    /\ UNCHANGED <<config, op>>

\* variant: a failed read is retried after the poll delay
ReadPoll_Retry(ok, buf) ==
    /\ pc = "read"
    /\ Cardinality(Reads(log)) < MaxReads
    /\ IF ok
       THEN LET next == AfterRead(op, resolution, buf)
            IN /\ log' = Append(log, Event("read", TRUE, buf, 0))
               /\ pc' = next.pc
               /\ result' = next.result
               /\ calcArgs' = calcArgs \o next.calc
               /\ device' = IF device = 0 \/ device = Stuck THEN device ELSE device - 1
       ELSE /\ log' = Append(log, Event("read", FALSE, <<0, 0, 0>>, 0))
            /\ pc' = "poll"
            /\ UNCHANGED <<result, calcArgs, device>>
    /\ UNCHANGED <<config, op>>

\* self.i2c.read(self.address, &mut buf).await and the branch that follows it
ReadPoll(ok, buf) ==
    /\ pc = "read"
    /\ Cardinality(Reads(log)) < MaxReads
    /\ IF ok
       THEN LET next == AfterRead(op, resolution, buf)
            IN /\ log' = Append(log, Event("read", TRUE, buf, 0))
               /\ pc' = next.pc
               /\ result' = next.result
               /\ calcArgs' = calcArgs \o next.calc
               /\ device' = IF device = 0 \/ device = Stuck THEN device ELSE device - 1
       ELSE /\ log' = Append(log, Event("read", FALSE, <<0, 0, 0>>, 0))
            /\ pc' = "done"
            /\ result' = Err("I2c")
            /\ UNCHANGED <<calcArgs, device>>
    /\ UNCHANGED <<config, op>>

\* Timer::after(Duration::from_millis(1)).await of the poll loop
PollDelay ==
    /\ pc = "poll"
    /\ log' = Append(log, Event("delay", TRUE, <<>>, 1))
    /\ pc' = "read"
    /\ UNCHANGED <<config, op, calcArgs, result, device>>

\* the caller takes the returned value
Return ==
    /\ pc = "done"
    /\ pc' = "idle"
    /\ log' = <<>>
    /\ calcArgs' = <<>>
    /\ result' = None
    /\ device' = 0
    /\ UNCHANGED <<config, op>>

Step ==
    \/ \E ok \in BOOLEAN : WriteCommand(ok)
    \/ SettleDelay
    \/ \E ok \in BOOLEAN, buf \in Answers(device) : ReadPoll(ok, buf)
    \/ PollDelay

\* the operations of the single instance; the histories and the two-caller
\* scenario are not followed
Next ==
    \/ (\E r \in Resolutions : with_resolution(r)) /\ UNCHANGED <<hist, shared>>
    \/ (\E g \in Gains : with_gain(g)) /\ UNCHANGED <<hist, shared>>
    \/ (\E c \in Channels : with_channel(c)) /\ UNCHANGED <<hist, shared>>
    \/ (\E c \in Channels : set_channel(c)) /\ UNCHANGED <<hist, shared>>
    \/ (\E m \in Modes : set_mode(m)) /\ UNCHANGED <<hist, shared>>
    \/ (\E script \in DeviceScripts : one_shot_measurement(script)) /\ UNCHANGED <<hist, shared>>
    \/ (\E script \in DeviceScripts : write_config(script)) /\ UNCHANGED <<hist, shared>>
    \/ (\E script \in DeviceScripts : get_measurement(script)) /\ UNCHANGED <<hist, shared>>
    \/ (\E ok \in BOOLEAN : WriteCommand(ok)) /\ UNCHANGED <<hist, shared>>
    \/ SettleDelay /\ UNCHANGED <<hist, shared>>
    \/ (\E ok \in BOOLEAN, buf \in Answers(device) : ReadPoll(ok, buf)) /\ UNCHANGED <<hist, shared>>
    \/ PollDelay /\ UNCHANGED <<hist, shared>>
    \/ Return /\ UNCHANGED <<hist, shared>>

Spec == Init /\ [][Next]_vars

\* A started bus transaction completes (with success or failure), a started
\* timer elapses, and the executor then resumes the task.
FairSpec == Spec /\ WF_vars(Step /\ UNCHANGED <<hist, shared>>)

-----------------------------------------------------------------------------
(* Sequences of calls on one instance, with what earlier calls returned *)

\* the caller takes the returned value; the histories record it
ReturnRecorded ==
    /\ Return
    /\ configWritten' = (configWritten \/ (op = "write_config" /\ result = OkUnit))
    /\ lastReturned' = IF result.tag = "Ok" THEN calcArgs ELSE lastReturned
    /\ UNCHANGED shared

\* the operations on an instance whose resolution, gain and channel keep
\* their defaults
NextHist ==
    \/ (\E m \in Modes : set_mode(m)) /\ UNCHANGED <<hist, shared>>
    \/ (\E script \in DeviceScripts : one_shot_measurement(script)) /\ UNCHANGED <<hist, shared>>
    \/ (\E script \in DeviceScripts : write_config(script)) /\ UNCHANGED <<hist, shared>>
    \/ (\E script \in DeviceScripts : get_measurement(script)) /\ UNCHANGED <<hist, shared>>
    \/ (\E ok \in BOOLEAN : WriteCommand(ok)) /\ UNCHANGED <<hist, shared>>
    \/ SettleDelay /\ UNCHANGED <<hist, shared>>
    \/ (\E ok \in BOOLEAN, buf \in Answers(device) : ReadPoll(ok, buf)) /\ UNCHANGED <<hist, shared>>
    \/ PollDelay /\ UNCHANGED <<hist, shared>>
    \/ ReturnRecorded

SpecHist == Init /\ [][NextHist]_vars

-----------------------------------------------------------------------------
(* Two logical callers running one_shot_measurement against one device *)

\* the device takes a control byte: it becomes the configuration in force and
\* a conversion under it begins, complete after `left` further reads
DeviceAccepts(byte, left) == [byte |-> byte, left |-> left]

\* the three bytes the device answers to a read: a mid-range sample and the
\* status, with bit 7 set while the conversion is in progress
DeviceAnswers(d) ==
    <<4, 0, BitOr(IF d.left = 0 THEN 0 ELSE NOT_READY, BitAnd(d.byte, 127))>>

\* a read lets the conversion in progress advance
DeviceAfterRead(d) == [d EXCEPT !.left = IF d.left = 0 THEN 0 ELSE d.left - 1]

OtherCaller(c) == CHOOSE o \in Callers : o # c

InCall(c) == callers[c].pc \in {"write", "settle", "read", "poll"}

\* the control byte of caller c's instance (OneShot mode, default resolution
\* and gain, its own channel)
CallerCommand(c) ==
    command("OneShot", callers[c].channel, Resolution_default, Gain_default)

\* two instances created in OneShot mode for different channels
InitShared ==
    /\ address \in Addresses
    /\ mode = "OneShot"
    /\ resolution = Resolution_default
    /\ gain = Gain_default
    /\ channel = Channel_default
    /\ op = "new"
    /\ pc = "idle"
    /\ log = <<>>
    /\ calcArgs = <<>>
    /\ result = None
    /\ device = 0
    /\ configWritten = FALSE
    /\ lastReturned = <<>>
    /\ \E ca \in Channels : \E cb \in Channels \ {ca} :
          callers = [c \in Callers |-> NewCaller(IF c = "A" THEN ca ELSE cb)]
    /\ dev = PowerOnDevice
    /\ overlap = FALSE
    /\ twin = NoTwin

\* caller c calls one_shot_measurement on its instance
SharedInvoke(c) ==
    /\ callers[c].pc = "idle"
    /\ callers' = [callers EXCEPT ![c] = [NewCaller(callers[c].channel) EXCEPT !.pc = "write"]]
    /\ overlap' = (overlap \/ InCall(OtherCaller(c)))
    /\ UNCHANGED <<single, hist, twin, dev>>

\* variant: the control byte is not transmitted
SharedWrite_Skipped(c, ok, left) ==
    /\ callers[c].pc = "write"
    /\ IF ok
       THEN /\ callers' = [callers EXCEPT ![c].pc = "settle", ![c].wrote = <<CallerCommand(c)>>]
            /\ UNCHANGED dev
       ELSE /\ callers' = [callers EXCEPT ![c].pc = "done", ![c].result = Err("I2c")]
            /\ UNCHANGED dev
    /\ UNCHANGED <<single, hist, twin, overlap>>

\* self.i2c.write(self.address, &[self.command()]).await of caller c
SharedWrite(c, ok, left) ==
    /\ callers[c].pc = "write"
    /\ IF ok
       THEN /\ callers' = [callers EXCEPT ![c].pc = "settle", ![c].wrote = <<CallerCommand(c)>>]
            /\ dev' = DeviceAccepts(CallerCommand(c), left)
       ELSE /\ callers' = [callers EXCEPT ![c].pc = "done", ![c].result = Err("I2c")]
            /\ UNCHANGED dev
    /\ UNCHANGED <<single, hist, twin, overlap>>

\* Timer::after(get_sleep_ms() + 2 ms).await of caller c
SharedSettle(c) ==
    /\ callers[c].pc = "settle"
    /\ callers' = [callers EXCEPT ![c].pc = "read"]
    /\ UNCHANGED <<single, hist, twin, dev, overlap>>

\* read_i2c of caller c and the branch of get_measurement that follows it;
\* `under` records the control byte in force when a returned sample was read
SharedRead(c, ok) ==
    /\ callers[c].pc = "read"
    /\ IF ok
       THEN LET next == AfterRead("one_shot_measurement", Resolution_default, DeviceAnswers(dev))
            IN /\ callers' = [callers EXCEPT ![c].pc = next.pc,
                                              ![c].result = next.result,
                                              ![c].under = IF next.pc = "done"
                                                           THEN <<dev.byte>> ELSE <<>>]
               /\ dev' = DeviceAfterRead(dev)
       ELSE /\ callers' = [callers EXCEPT ![c].pc = "done", ![c].result = Err("I2c")]
            /\ UNCHANGED dev
    /\ UNCHANGED <<single, hist, twin, overlap>>

\* Timer::after(1 ms).await of caller c's poll loop
SharedPoll(c) ==
    /\ callers[c].pc = "poll"
    /\ callers' = [callers EXCEPT ![c].pc = "read"]
    /\ UNCHANGED <<single, hist, twin, dev, overlap>>

\* caller c takes the returned value
SharedReturn(c) ==
    /\ callers[c].pc = "done"
    /\ callers' = [callers EXCEPT ![c] = NewCaller(callers[c].channel)]
    /\ UNCHANGED <<single, hist, twin, dev, overlap>>

NextShared ==
    \/ \E c \in Callers : SharedInvoke(c)
    \/ \E c \in Callers, ok \in BOOLEAN, left \in 0..MaxPolls : SharedWrite(c, ok, left)
    \/ \E c \in Callers : SharedSettle(c)
    \/ \E c \in Callers, ok \in BOOLEAN : SharedRead(c, ok)
    \/ \E c \in Callers : SharedPoll(c)
    \/ \E c \in Callers : SharedReturn(c)

SpecShared == InitShared /\ [][NextShared]_vars

-----------------------------------------------------------------------------
(* Two instances of equal resolution converting the same raw sample *)

Twins == {"A", "B"}

\* the operations that convert a raw sample
Conversions == {"calculate_voltage", "get_measurement", "one_shot_measurement"}

\* ThermostatConfig values of resolution r (the bus handle left out)
Configurations(r) ==
    [address : Addresses, mode : Modes, resolution : {r}, gain : Gains, channel : Channels]

\* the configurations instance A is taken from: created in OneShot mode at
\* the lower address, any gain and channel (instance B is any configuration)
LowestAddress == CHOOSE a \in Addresses : \A x \in Addresses : a <= x

ReferenceConfigurations(r) ==
    {c \in Configurations(r) : c.mode = "OneShot" /\ c.address = LowestAddress}

\* an instance as configured, before its conversion runs
NewTwin(cfg) == [created |-> cfg, self |-> cfg, pc |-> "idle", result |-> None]

\* the three bytes instance `self` reads for raw sample s once the conversion
\* is complete: the sample and the status echoing its own configuration
TwinAnswer(self, s) ==
    <<s[1], s[2], BitAnd(command(self.mode, self.channel, self.resolution, self.gain), 127)>>

InitTwin ==
    /\ address = LowestAddress
    /\ mode = "OneShot"
    /\ resolution = Resolution_default
    /\ gain = Gain_default
    /\ channel = Channel_default
    /\ op = "new"
    /\ pc = "idle"
    /\ log = <<>>
    /\ calcArgs = <<>>
    /\ result = None
    /\ device = 0
    /\ configWritten = FALSE
    /\ lastReturned = <<>>
    /\ callers = [c \in Callers |-> NewCaller(Channel_default)]
    /\ dev = PowerOnDevice
    /\ overlap = FALSE
    /\ \E r \in Resolutions : \E a \in ReferenceConfigurations(r), b \in Configurations(r) :
       \E call \in Conversions, s \in SampleBytes :
          twin = [call |-> call, sample |-> s,
                  inst |-> [i \in Twins |-> NewTwin(IF i = "A" THEN a ELSE b)]]

\* variant: the millivolt value is divided by the programmed gain
TwinConvert_GainScaled(i) ==
    LET self == twin.inst[i].self
        buf == TwinAnswer(self, twin.sample)
        out == IF twin.call = "calculate_voltage"
               THEN calculate_voltage(self.resolution, read_i2c(buf).measurement)
               ELSE AfterRead(twin.call, self.resolution, buf).result
    IN /\ twin.inst[i].pc = "idle"
       /\ twin' = [twin EXCEPT !.inst[i].pc = "done",
                               !.inst[i].result =
                                   IF out.tag = "Ok"
                                   THEN Ok(TruncDiv(out.val, 2 ^ Gain_bits(self.gain)))
                                   ELSE out]
       /\ UNCHANGED <<single, hist, callers, dev, overlap>>

\* instance i runs the conversion on the ready sample: calculate_voltage on
\* the raw sample, or get_measurement / one_shot_measurement whose first read
\* is answered ready. The methods only read self.
TwinConvert(i) ==
    LET self == twin.inst[i].self
        buf == TwinAnswer(self, twin.sample)
        out == IF twin.call = "calculate_voltage"
               THEN calculate_voltage(self.resolution, read_i2c(buf).measurement)
               ELSE AfterRead(twin.call, self.resolution, buf).result
    IN /\ twin.inst[i].pc = "idle"
       /\ twin' = [twin EXCEPT !.inst[i].pc = "done", !.inst[i].result = out]
       /\ UNCHANGED <<single, hist, callers, dev, overlap>>

NextTwin == \E i \in Twins : TwinConvert(i)

SpecTwin == InitTwin /\ [][NextTwin]_vars

-----------------------------------------------------------------------------
(* calculate_voltage on its own, for every 16-bit raw sample *)

InitCalc ==
    /\ address \in Addresses
    /\ mode = "OneShot"
    /\ resolution \in Resolutions
    /\ gain = Gain_default
    /\ channel = Channel_default
    /\ op = "calculate_voltage"
    /\ pc = "calc"
    /\ log = <<>>
    /\ \E m \in I16 : calcArgs = <<m>>
    /\ result = None
    /\ device = 0
    /\ NoHistory

CalculateVoltage ==
    /\ pc = "calc"
    /\ result' = calculate_voltage(resolution, calcArgs[1])
    /\ pc' = "done"
    /\ UNCHANGED <<config, op, log, calcArgs, device, hist, shared>>

NextCalc == CalculateVoltage

SpecCalc == InitCalc /\ [][NextCalc]_vars

-----------------------------------------------------------------------------
(* The readiness test on its own, for every status byte *)

Bool(v) == [tag |-> "Bool", val |-> IF v THEN 1 ELSE 0]

\* the three places that decide readiness, each given a status byte
InitStatus ==
    /\ address \in Addresses
    /\ mode = "OneShot"
    /\ resolution = Resolution_default
    /\ gain = Gain_default
    /\ channel = Channel_default
    /\ op \in {"is_ready", "read_i2c", "write_config"}
    /\ pc = "calc"
    /\ log = <<>>
    /\ \E b \in 0..255 : calcArgs = <<b>>
    /\ result = None
    /\ device = 0
    /\ NoHistory

\* ConfigRegister::new(b).is_ready()
IsReadyOfByte ==
    /\ pc = "calc" /\ op = "is_ready"
    /\ result' = Bool(is_ready(ConfigRegister_new(calcArgs[1])))
    /\ pc' = "done"
    /\ UNCHANGED <<config, op, log, calcArgs, device, hist, shared>>

\* the status as decoded by read_i2c for get_measurement
IsReadyOfRead ==
    /\ pc = "calc" /\ op = "read_i2c"
    /\ result' = Bool(is_ready(read_i2c(<<0, 0, calcArgs[1]>>).config_reg))
    /\ pc' = "done"
    /\ UNCHANGED <<config, op, log, calcArgs, device, hist, shared>>

\* the status as decoded by the poll loop of write_config
IsReadyOfConfigPoll ==
    /\ pc = "calc" /\ op = "write_config"
    /\ result' = Bool(AfterRead("write_config", resolution, <<0, 0, calcArgs[1]>>).pc = "done")
    /\ pc' = "done"
    /\ UNCHANGED <<config, op, log, calcArgs, device, hist, shared>>

NextStatus == IsReadyOfByte \/ IsReadyOfRead \/ IsReadyOfConfigPoll

SpecStatus == InitStatus /\ [][NextStatus]_vars

-----------------------------------------------------------------------------
(* Properties *)

Last(l) == l[Len(l)]

IsWrite(e) == e.kind = "write"
IsRead(e) == e.kind = "read"
IsDelay(e) == e.kind = "delay"

\* a successful read whose status byte has bit 7 clear / set
ReadyRead(e) == IsRead(e) /\ e.ok /\ Bit(e.data[3], 7) = 0
NotReadyRead(e) == IsRead(e) /\ e.ok /\ Bit(e.data[3], 7) = 1

\* the raw sample carried by a read
SampleOf(e) == i16_from_be_bytes(e.data[1], e.data[2])

NoBusFailure == \A i \in 1..Len(log) : log[i].ok

\* C1: one_shot_measurement in OneShot mode on a bus that never fails performs
\* one write of one byte, one delay of get_sleep_ms()+2 ms, then reads of three
\* bytes separated by single 1 ms delays; every read but the last is not-ready,
\* and the call returns with the first ready read (k not-ready reads give
\* k+1 reads and k poll delays, 2k+3 events in all).
C1_OneShotSequence ==
    (op = "one_shot_measurement" /\ mode = "OneShot" /\ pc # "idle" /\ NoBusFailure) =>
        /\ \A i \in 1..Len(log) :
              /\ i = 1 => IsWrite(log[i]) /\ Len(log[i].data) = 1
              /\ i = 2 => IsDelay(log[i]) /\ log[i].ms = get_sleep_ms(resolution) + 2
              /\ (i >= 3 /\ i % 2 = 1) => IsRead(log[i]) /\ Len(log[i].data) = 3
              /\ (i >= 4 /\ i % 2 = 0) => IsDelay(log[i]) /\ log[i].ms = 1
              /\ (IsRead(log[i]) /\ i < Len(log)) => NotReadyRead(log[i])
        /\ pc = "done" <=> (Len(log) >= 3 /\ ReadyRead(Last(log)))
        /\ pc = "done" =>
              LET k == Cardinality(Reads(log)) - 1
              IN /\ Len(log) = 2 * k + 3
                 /\ Cardinality({i \in 1..Len(log) : IsWrite(log[i])}) = 1
                 /\ Cardinality({i \in 1..Len(log) : IsDelay(log[i])}) = k + 1

\* C1 witness: a completed one-shot call with two not-ready reads before the ready one
C1_Witness ==
    /\ op = "one_shot_measurement" /\ mode = "OneShot" /\ pc = "done" /\ NoBusFailure
    /\ Cardinality(Reads(log)) = 3
    /\ Len(log) = 7

\* C2: a result derived from a sample is computed from the sample of a read
\* whose status has bit 7 clear; a sample read with bit 7 set is never handed
\* to calculate_voltage and never returned.
C2_OnlyReadySamplesSurface ==
    /\ Len(calcArgs) <= 1
    /\ calcArgs # <<>> =>
          /\ log # <<>>
          /\ ReadyRead(Last(log))
          /\ calcArgs = <<SampleOf(Last(log))>>
    /\ result.tag \in {"Ok", "VoltageTooHigh", "VoltageTooLow"} =>
          /\ log # <<>>
          /\ ReadyRead(Last(log))
          /\ calcArgs = <<SampleOf(Last(log))>>
          /\ result = calculate_voltage(resolution, SampleOf(Last(log)))
    /\ \A i \in 1..Len(log) :
          NotReadyRead(log[i]) =>
              /\ result.tag \in {"Ok", "VoltageTooHigh", "VoltageTooLow"} => i < Len(log)
              /\ i = Len(log) => calcArgs = <<>>

\* C2 witness: a not-ready read carrying the 12-bit saturation code was
\* discarded and the following ready read produced the returned voltage
C2_Witness ==
    /\ op \in {"get_measurement", "one_shot_measurement"}
    /\ resolution = "Bits12Sps240"
    /\ pc = "done"
    /\ result.tag = "Ok"
    /\ \E i \in 1..Len(log) : NotReadyRead(log[i]) /\ SampleOf(log[i]) = 2047

\* C3: the first failed bus transaction ends the call with Error::I2c; no
\* transaction and no delay follows it.
C3_FirstFailureAborts ==
    /\ \A i \in 1..Len(log) :
          ~log[i].ok =>
              /\ i = Len(log)
              /\ pc = "done"
              /\ result = Err("I2c")
    /\ result = Err("I2c") => (log # <<>> /\ ~Last(log).ok)

\* C3 witness: a read failed at the second poll iteration
C3_Witness ==
    /\ pc = "done"
    /\ result = Err("I2c")
    /\ Cardinality(Reads(log)) = 2
    /\ IsRead(Last(log)) /\ ~Last(log).ok

\* the control byte written by the running call, when it has written one
WroteByte == log # <<>> /\ IsWrite(log[1])
ByteWritten == log[1].data[1]

\* C4 as claimed: the byte written by one_shot_measurement has bit 7 set in
\* every mode.
C4_OneShotAlwaysStarts ==
    (op = "one_shot_measurement" /\ WroteByte) => Bit(ByteWritten, 7) = 1

\* C4: the byte written by one_shot_measurement has bit 7 set for every
\* channel, resolution and gain exactly when the mode is OneShot; in
\* Continuous mode it has bit 7 clear.
C4_OneShotStartsInOneShotMode ==
    (op = "one_shot_measurement" /\ WroteByte) =>
        /\ mode = "OneShot" => Bit(ByteWritten, 7) = 1
        /\ mode = "Continuous" => Bit(ByteWritten, 7) = 0

\* C4 witness: a one-shot call in OneShot mode with no field at its default
\* has written its control byte
C4_Witness ==
    /\ op = "one_shot_measurement" /\ WroteByte
    /\ mode = "OneShot"
    /\ channel = "Channel4" /\ resolution = "Bits16Sps15" /\ gain = "Gain8"
    /\ ByteWritten = 235

\* C5 as claimed: the byte written by write_config has bit 7 clear in every
\* mode.
C5_WriteConfigNeverStarts ==
    (op = "write_config" /\ WroteByte) => Bit(ByteWritten, 7) = 0

\* C5: the byte written by write_config has bit 7 clear for every channel,
\* resolution and gain exactly when the mode is Continuous; in OneShot mode it
\* has bit 7 set.
C5_WriteConfigPlainInContinuousMode ==
    (op = "write_config" /\ WroteByte) =>
        /\ mode = "Continuous" => Bit(ByteWritten, 7) = 0
        /\ mode = "OneShot" => Bit(ByteWritten, 7) = 1

\* C5 witness: write_config in Continuous mode with no field at its default
\* has written its control byte
C5_Witness ==
    /\ op = "write_config" /\ WroteByte
    /\ mode = "Continuous"
    /\ channel = "Channel3" /\ resolution = "Bits14Sps60" /\ gain = "Gain4"
    /\ ByteWritten = 86

\* C6: in one_shot_measurement and write_config the write comes first and
\* only once, the settle delay is pending or elapsed only after a successful
\* write, every read follows the elapsed settle delay, and that delay lasts
\* get_sleep_ms() ms (get_sleep_ms()+2 in one_shot_measurement).
C6_WriteSettleRead ==
    op \in {"one_shot_measurement", "write_config"} =>
        /\ \A i \in 1..Len(log) :
              /\ IsWrite(log[i]) <=> i = 1
              /\ IsDelay(log[i]) => (i >= 2 /\ log[1].ok)
              /\ IsRead(log[i]) =>
                    /\ i >= 3
                    /\ log[1].ok
                    /\ IsDelay(log[2])
                    /\ log[2].ms >= get_sleep_ms(resolution)
                    /\ op = "one_shot_measurement" => log[2].ms = get_sleep_ms(resolution) + 2
                    /\ op = "write_config" => log[2].ms = get_sleep_ms(resolution)
        /\ pc = "settle" => (Len(log) = 1 /\ log[1].ok)
        /\ pc \in {"read", "poll"} => Len(log) >= 2

\* C6 witness: a call whose write succeeded and whose first read then failed
C6_Witness ==
    /\ op \in {"one_shot_measurement", "write_config"}
    /\ Len(log) = 3
    /\ IsWrite(log[1]) /\ log[1].ok /\ IsDelay(log[2])
    /\ IsRead(log[3]) /\ ~log[3].ok
    /\ result = Err("I2c")

\* C7: calculate_voltage(m) fails exactly when m is the resolution's maximum
\* code (VoltageTooHigh) or minimum code (VoltageTooLow); every other 16-bit
\* value, in or out of the resolution's range, gives Ok.
C7_FailsExactlyAtExtremes ==
    (op = "calculate_voltage" /\ pc = "done") =>
        LET m == calcArgs[1]
            hi == CASE resolution = "Bits12Sps240" -> 2047
                    [] resolution = "Bits14Sps60" -> 8191
                    [] resolution = "Bits16Sps15" -> 32767
            lo == -hi - 1
        IN /\ result.tag \in {"Ok", "VoltageTooHigh", "VoltageTooLow"}
           /\ result.tag = "VoltageTooHigh" <=> m = hi
           /\ result.tag = "VoltageTooLow" <=> m = lo
           /\ hi = Resolution_max(resolution) /\ lo = Resolution_min(resolution)

\* C7 witness: at 12 bits a code above the resolution's range is converted
C7_Witness ==
    /\ op = "calculate_voltage" /\ pc = "done"
    /\ resolution = "Bits12Sps240"
    /\ calcArgs = <<5000>>
    /\ result = Ok(5000)

\* C8 as claimed: the settle delay is at least one period of the
\* resolution's sample rate (ms >= 1000 / SPS).
C8_SettleBoundsConversion ==
    get_sleep_ms(resolution) * SampleRate(resolution) >= 1000

\* a call of the poll loop is in progress
Active == pc \in {"write", "settle", "read", "poll"}

\* C9 (safety part): a call has returned exactly when its last transaction
\* failed or its last read reported ready.
ReturnsExactlyWhen ==
    /\ pc = "done" <=> (log # <<>> /\ (~Last(log).ok \/ ReadyRead(Last(log))))
    /\ pc = "done" => (result = Err("I2c") <=> ~Last(log).ok)
    /\ (pc = "poll" \/ (pc = "read" /\ Cardinality(Reads(log)) > 0)) =>
          \A i \in Reads(log) : NotReadyRead(log[i])
    /\ device = Stuck => \A i \in Reads(log) : ~ReadyRead(log[i])

\* the model's horizon: as many not-ready reads as are followed, the loop
\* about to read again
AtHorizon ==
    /\ pc = "read"
    /\ Cardinality(Reads(log)) = MaxReads
    /\ \A i \in Reads(log) : NotReadyRead(log[i])
    /\ Cardinality({i \in 1..Len(log) : IsDelay(log[i]) /\ log[i].ms = 1 /\ i > 1
                                        /\ IsRead(log[i - 1])}) = MaxReads

Saturated(r, m) ==
    IF m = Resolution_max(r) THEN "VoltageTooHigh"
    ELSE IF m = Resolution_min(r) THEN "VoltageTooLow"
    ELSE "no"

\* C10: in get_measurement and one_shot_measurement a ready read whose sample
\* is the active resolution's maximum (minimum) code ends the call with
\* VoltageTooHigh (VoltageTooLow), not Error::I2c, with no read or delay
\* after it; and these two errors are returned only after such a read.
C10_SaturationTerminal ==
    op \in {"get_measurement", "one_shot_measurement"} =>
        /\ \A i \in 1..Len(log) :
              (ReadyRead(log[i]) /\ Saturated(resolution, SampleOf(log[i])) # "no") =>
                  /\ i = Len(log)
                  /\ pc = "done"
                  /\ result = Err(Saturated(resolution, SampleOf(log[i])))
                  /\ result # Err("I2c")
        /\ result.tag \in {"VoltageTooHigh", "VoltageTooLow"} =>
              /\ log # <<>>
              /\ ReadyRead(Last(log))
              /\ Saturated(resolution, SampleOf(Last(log))) = result.tag

\* C10 witness: at 16 bits a ready read of 32767 after one not-ready read
\* ended get_measurement with VoltageTooHigh
C10_Witness ==
    /\ op = "get_measurement"
    /\ resolution = "Bits16Sps15"
    /\ pc = "done"
    /\ Len(log) = 3
    /\ ReadyRead(Last(log)) /\ SampleOf(Last(log)) = 32767
    /\ result = Err("VoltageTooHigh")

\* C11: write_config on a bus that never fails performs one write, one delay
\* of get_sleep_ms() ms without guard margin, then reads of three bytes
\* separated by single 1 ms delays, and returns Ok(()) with the first ready
\* read whatever its sample; it never hands a sample to calculate_voltage and
\* never returns VoltageTooHigh or VoltageTooLow.
C11_WriteConfigSequence ==
    (op = "write_config" /\ pc # "idle") =>
        /\ result.tag \in {"None", "OkUnit", "I2c"}
        /\ calcArgs = <<>>
        /\ NoBusFailure =>
              /\ \A i \in 1..Len(log) :
                    /\ i = 1 => IsWrite(log[i]) /\ Len(log[i].data) = 1
                    /\ i = 2 => IsDelay(log[i]) /\ log[i].ms = get_sleep_ms(resolution)
                    /\ (i >= 3 /\ i % 2 = 1) => IsRead(log[i]) /\ Len(log[i].data) = 3
                    /\ (i >= 4 /\ i % 2 = 0) => IsDelay(log[i]) /\ log[i].ms = 1
                    /\ (IsRead(log[i]) /\ i < Len(log)) => NotReadyRead(log[i])
              /\ pc = "done" <=> (Len(log) >= 3 /\ ReadyRead(Last(log)))
              /\ pc = "done" =>
                    /\ result = OkUnit
                    /\ Len(log) = 2 * Cardinality(Reads(log)) + 1
                    /\ Cardinality({i \in 1..Len(log) : IsWrite(log[i])}) = 1

\* C11 witness: write_config returned Ok(()) after two not-ready reads and a
\* ready read that carried the maximum code of the active resolution
C11_Witness ==
    /\ op = "write_config" /\ pc = "done" /\ NoBusFailure
    /\ Cardinality(Reads(log)) = 3
    /\ Len(log) = 7
    /\ SampleOf(Last(log)) = Resolution_max(resolution)
    /\ result = OkUnit

\* index of a selection within the 2-bit (1-bit for the mode) field it encodes to
ChannelField(c) ==
    CASE c = "Channel1" -> 0 [] c = "Channel2" -> 1 [] c = "Channel3" -> 2 [] c = "Channel4" -> 3
ModeField(m) == IF m = "Continuous" THEN 1 ELSE 0
ResolutionField(r) ==
    CASE r = "Bits12Sps240" -> 0 [] r = "Bits14Sps60" -> 1 [] r = "Bits16Sps15" -> 2
GainField(g) ==
    CASE g = "Gain1" -> 0 [] g = "Gain2" -> 1 [] g = "Gain4" -> 2 [] g = "Gain8" -> 3

\* the fields of a control byte
FieldStart(b) == b \div 128
FieldChannel(b) == (b \div 32) % 4
FieldMode(b) == (b \div 16) % 2
FieldResolution(b) == (b \div 4) % 4
FieldGain(b) == b % 4

\* C12: the control byte written by a transaction is the combination of the
\* channel pattern (bits 6-5), the mode pattern (bit 4), the resolution
\* pattern (bits 3-2) and the gain pattern (bits 1-0) of the configuration as
\* the mutators left it, with bit 7 set exactly in OneShot mode.
C12_ControlByteLayout ==
    WroteByte =>
        /\ ByteWritten \in 0..255
        /\ ByteWritten = (IF mode = "OneShot" THEN 128 ELSE 0)
                         + 32 * ChannelField(channel)
                         + 16 * ModeField(mode)
                         + 4 * ResolutionField(resolution)
                         + GainField(gain)
        /\ ByteWritten = command(mode, channel, resolution, gain)
        /\ FieldStart(ByteWritten) = 1 <=> mode = "OneShot"

\* C12 witness: after the channel, resolution and gain were changed on an
\* instance in Continuous mode, a call wrote 0b0011_1001
C12_Witness ==
    /\ WroteByte
    /\ mode = "Continuous" /\ channel = "Channel2"
    /\ resolution = "Bits16Sps15" /\ gain = "Gain2"
    /\ ByteWritten = 57

\* the selections a control byte decodes to
DecodeChannel(b) == CHOOSE c \in Channels : ChannelField(c) = FieldChannel(b)
DecodeMode(b) == CHOOSE m \in Modes : ModeField(m) = FieldMode(b)
DecodeResolution(b) ==
    IF FieldResolution(b) = 3 THEN "invalid"
    ELSE CHOOSE r \in Resolutions : ResolutionField(r) = FieldResolution(b)
DecodeGain(b) == CHOOSE g \in Gains : GainField(g) = FieldGain(b)

AllSelections == Modes \X Channels \X Resolutions \X Gains

\* C13: decoding bits 6-5, bit 4, bits 3-2 and bits 1-0 of the control byte
\* gives back the channel, mode, resolution and gain it was computed from,
\* and no other combination of selections gives the same byte.
C13_ControlByteRoundTrip ==
    (WroteByte /\ pc = "settle") =>
        /\ DecodeChannel(ByteWritten) = channel
        /\ DecodeMode(ByteWritten) = mode
        /\ DecodeResolution(ByteWritten) = resolution
        /\ DecodeGain(ByteWritten) = gain
        /\ \A sel \in AllSelections :
              command(sel[1], sel[2], sel[3], sel[4]) = ByteWritten
                  => sel = <<mode, channel, resolution, gain>>

\* C13 witness: the byte 0b1110_1011 was written and decodes to OneShot,
\* channel 4, 16 bits, gain 8
C13_Witness ==
    /\ WroteByte /\ pc = "settle"
    /\ ByteWritten = 235
    /\ DecodeChannel(ByteWritten) = "Channel4" /\ DecodeMode(ByteWritten) = "OneShot"
    /\ DecodeResolution(ByteWritten) = "Bits16Sps15" /\ DecodeGain(ByteWritten) = "Gain8"

Mutators == {"with_resolution", "with_gain", "with_channel", "set_channel", "set_mode"}
Operations == {"one_shot_measurement", "write_config", "get_measurement"}

\* a step of a mutator: the instance is idle before and after it
MutatorStep == pc = "idle" /\ pc' = "idle" /\ single' # single

\* C17 (per step): a mutator issues no bus transaction and no delay, returns
\* no error, and changes only the field it names.
MutatorFrame ==
    MutatorStep =>
        /\ op' \in Mutators
        /\ log' = log /\ log = <<>>
        /\ result' = None /\ calcArgs' = <<>>
        /\ address' = address
        /\ op' = "with_resolution" => <<mode, gain, channel>>' = <<mode, gain, channel>>
        /\ op' = "with_gain" => <<mode, resolution, channel>>' = <<mode, resolution, channel>>
        /\ op' \in {"with_channel", "set_channel"} =>
              <<mode, resolution, gain>>' = <<mode, resolution, gain>>
        /\ op' = "set_mode" => <<resolution, gain, channel>>' = <<resolution, gain, channel>>

\* C17 (per state): until one of the three operations is called nothing has
\* been sent: a transaction or delay exists only inside a running call.
NoTransactionOutsideCalls ==
    /\ log # <<>> => (op \in Operations /\ pc # "idle")
    /\ op \in Mutators \cup {"new"} => (log = <<>> /\ result = None /\ pc = "idle")

\* C17: new, with_resolution, with_gain, with_channel, set_channel and
\* set_mode issue no bus transaction and no delay and cannot fail; each
\* mutator changes only the field it names; the first transaction happens
\* inside one_shot_measurement, write_config or get_measurement.
C17_MutatorsOnlySetTheirField ==
    /\ []NoTransactionOutsideCalls
    /\ [][MutatorFrame]_vars
    /\ [][(log = <<>> /\ log' # <<>>) => (op \in Operations /\ op' = op)]_vars

\* C17 witness: every mutator-settable field was changed, set_mode last, and
\* nothing was sent
C17_Witness ==
    /\ op = "set_mode" /\ pc = "idle"
    /\ mode = "Continuous" /\ channel = "Channel3"
    /\ resolution = "Bits14Sps60" /\ gain = "Gain4"
    /\ log = <<>> /\ result = None

\* C19: res_bits, max and min agree with the table (12 bits: 2047 / -2048,
\* 14 bits: 8191 / -8192, 16 bits: 32767 / -32768), max = 2^(res_bits-1) - 1
\* and min = -2^(res_bits-1), and bits 3-2 of the control byte written are 00
\* at 12 bits, 01 at 14 bits and 10 at 16 bits.
C19_ResolutionTable ==
    LET row == CASE resolution = "Bits12Sps240" -> <<12, 2047, -2048, 0>>
                 [] resolution = "Bits14Sps60" -> <<14, 8191, -8192, 1>>
                 [] resolution = "Bits16Sps15" -> <<16, 32767, -32768, 2>>
    IN /\ res_bits(resolution) = row[1]
       /\ Resolution_max(resolution) = row[2]
       /\ Resolution_min(resolution) = row[3]
       /\ Resolution_max(resolution) = 2 ^ (res_bits(resolution) - 1) - 1
       /\ Resolution_min(resolution) = -(2 ^ (res_bits(resolution) - 1))
       /\ Resolution_bits(resolution) = 4 * row[4]
       /\ WroteByte => FieldResolution(ByteWritten) = row[4]

\* C19 witness: at 14 bits a call wrote a control byte with bits 3-2 = 01
C19_Witness ==
    /\ WroteByte
    /\ resolution = "Bits14Sps60"
    /\ Resolution_max(resolution) = 8191 /\ Resolution_min(resolution) = -8192
    /\ FieldResolution(ByteWritten) = 1

\* a finished evaluation of calculate_voltage on raw sample calcArgs[1]
Calculated == op = "calculate_voltage" /\ pc = "done"

IsExtreme(r, x) ==
    \/ (r = "Bits12Sps240" /\ x \in {2047, -2048})
    \/ (r = "Bits14Sps60" /\ x \in {8191, -8192})
    \/ (r = "Bits16Sps15" /\ x \in {32767, -32768})

\* x * 4096 / 2^bits with the quotient truncated toward zero
Millivolts(r, x) ==
    LET bits == CASE r = "Bits12Sps240" -> 12 [] r = "Bits14Sps60" -> 14 [] r = "Bits16Sps15" -> 16
    IN IF x >= 0 THEN (x * 4096) \div (2 ^ bits) ELSE -(((-x) * 4096) \div (2 ^ bits))

\* C14: away from the extremes calculate_voltage(x) = x * 4096 / 2^res_bits
\* truncated toward zero, and calculate_voltage(-x) = -calculate_voltage(x)
\* whenever -x is a 16-bit value and neither x nor -x is an extreme code.
C14_OddSymmetric ==
    Calculated =>
        LET x == calcArgs[1] IN
        (-x \in I16 /\ ~IsExtreme(resolution, x) /\ ~IsExtreme(resolution, -x)) =>
            /\ result = Ok(Millivolts(resolution, x))
            /\ calculate_voltage(resolution, -x) = Ok(-result.val)
            /\ resolution = "Bits12Sps240" => result.val = x

\* C14 witness: at 14 bits -5 converts to -1 (-1.25 truncated toward zero)
C14_Witness ==
    /\ Calculated
    /\ resolution = "Bits14Sps60"
    /\ calcArgs = <<-5>>
    /\ result = Ok(-1)

\* largest signed 32-bit integer, 2^31 - 1
I32Max == 2147483647

Abs(x) == IF x >= 0 THEN x ELSE -x

\* C15: in calculate_voltage REF_MILLIVOLTS * 2 fits a signed 16-bit integer,
\* the product of the sample and that factor fits a signed 32-bit integer,
\* the divisor 1 << res_bits fits a signed 32-bit integer and is not zero,
\* and the result is the quotient of the exact product.
C15_NoOverflow ==
    Calculated =>
        LET x == calcArgs[1]
            factor == REF_MILLIVOLTS * 2
        IN /\ factor \in I16
           /\ factor = 4096
           /\ Abs(x) <= I32Max \div Abs(factor)
           /\ res_bits(resolution) \in 0..30
           /\ 2 ^ res_bits(resolution) \in 1..I32Max
           /\ result.tag = "Ok" => result.val = Millivolts(resolution, x)
           /\ result.tag = "Ok" => Abs(result.val) <= Abs(x)

\* C15 witness: the most negative sample at 12 bits, the largest product
\* (-32768 * 4096 = -2^27), converts to -32768
C15_Witness ==
    /\ Calculated
    /\ resolution = "Bits12Sps240"
    /\ calcArgs = <<-32768>>
    /\ result = Ok(-32768)

Returned(c) == callers[c].pc = "done" /\ callers[c].result.tag = "Ok"

\* C20: as long as every call has run to completion before the next began,
\* each returned sample was converted under the control byte its own call
\* wrote; a sample converted under another control byte is returned only
\* after calls have overlapped.
C20_SerialCallsOwnTheirSample ==
    \A c \in Callers :
        Returned(c) =>
            /\ callers[c].wrote = <<CallerCommand(c)>>
            /\ FieldChannel(callers[c].wrote[1]) = ChannelField(callers[c].channel)
            /\ Len(callers[c].under) = 1
            /\ ~overlap => callers[c].under = callers[c].wrote
            /\ callers[c].under # callers[c].wrote => overlap

\* C20 witness: the calls interleaved, the other caller's write replaced the
\* configuration in force, and this caller was returned Ok for a sample
\* converted under the other caller's control byte (another channel)
C20_Witness ==
    \E c \in Callers :
        /\ overlap
        /\ Returned(c)
        /\ callers[c].under = callers[OtherCaller(c)].wrote
        /\ callers[c].under # callers[c].wrote
        /\ FieldChannel(callers[c].under[1]) = ChannelField(callers[OtherCaller(c)].channel)
        /\ FieldChannel(callers[c].under[1]) # ChannelField(callers[c].channel)

\* instance i has finished its conversion
Converted(i) == twin.inst[i].pc = "done"

\* C21: two instances that differ only in gain, channel, mode or address
\* return the same result (the same Ok value or the same saturation error)
\* for the same raw sample; the result is determined by the raw sample and
\* the resolution alone, so an Ok value is x * 4096 / 2^bits whatever the
\* gain; and the conversion leaves every configuration field as created.
C21_ResultIgnoresGainChannelModeAddress ==
    /\ \A i \in Twins, j \in Twins :
          (Converted(i) /\ Converted(j)) => twin.inst[i].result = twin.inst[j].result
    /\ \A i \in Twins :
          Converted(i) =>
             LET x == i16_from_be_bytes(twin.sample[1], twin.sample[2])
                 r == twin.inst[i].created.resolution
             IN /\ twin.inst[i].self = twin.inst[i].created
                /\ twin.inst[i].result.tag \in {"Ok", "VoltageTooHigh", "VoltageTooLow"}
                /\ twin.inst[i].result.tag = "Ok" <=> ~IsExtreme(r, x)
                /\ twin.inst[i].result.tag = "Ok" => twin.inst[i].result.val = Millivolts(r, x)

\* C21 witness: one_shot_measurement on raw sample 1024 at 12 bits returned
\* Ok(1024) both to an instance with gain 1 and to one with gain 8 that also
\* differs in channel, mode and address
C21_Witness ==
    /\ twin.call = "one_shot_measurement"
    /\ twin.sample = <<4, 0>>
    /\ Converted("A") /\ Converted("B")
    /\ twin.inst["A"].self.resolution = "Bits12Sps240"
    /\ twin.inst["A"].self.gain = "Gain1"
    /\ twin.inst["B"].self.gain = "Gain8"
    /\ twin.inst["A"].self.channel # twin.inst["B"].self.channel
    /\ twin.inst["A"].self.mode = "OneShot"
    /\ twin.inst["B"].self.mode = "Continuous"
    /\ twin.inst["A"].self.address # twin.inst["B"].self.address
    /\ twin.inst["A"].result = Ok(1024)
    /\ twin.inst["B"].result = Ok(1024)

====
